---- MODULE Spec2Model ----
(***************************************************************************)
(* nl2cql: the incremental CQL checker (CQLChecker of cql_checker-old) and *)
(* the lark grammar of the full validator (CQLChecker of cql_checker).     *)
(*                                                                         *)
(* A Python string is modelled as a sequence of one-character strings, so  *)
(* that startswith, concatenation and iteration over characters are        *)
(* computed, not assumed.                                                  *)
(***************************************************************************)
EXTENDS Integers, Sequences, FiniteSets, TLC

VARIABLES
    checker, pc, call,          \* the incremental checker and its caller
    gram, accepted_all,         \* the full grammar read side by side
    query, rets,                \* a query fed to the checker, and the results
    remote, rcall, confirmed,   \* the remote checker, its caller, the endpoint
    built, previous,            \* the last grammar built, the one before
    template,                   \* the module's grammar template
    einfra,                     \* one call of call_einfra
    auto                        \* one call of auto_call

full_vars == <<gram, accepted_all>>
trace_vars == <<query, rets>>
remote_vars == <<remote, rcall, confirmed>>
builder_vars == <<built, previous, template>>
loop_vars == <<einfra, auto>>

vars == <<checker, pc, call, full_vars, trace_vars, remote_vars, builder_vars,
          loop_vars>>

(***************************************************************************)
(* Bounds of the model.                                                    *)
(***************************************************************************)
\* longest text handed to one add_string call
MaxLen == 2

(***************************************************************************)
(* Program constants.                                                      *)
(***************************************************************************)
\* add_string(self, s, token_id = -1000)
DefaultTokenId == -1000
\* self.eos_token_id = 1
EosTokenId == 1

\* the unit ids a caller passes: the default, the terminator, one more
TokenIds == {DefaultTokenId, EosTokenId, EosTokenId + 1}

\* the ignore sets a caller configures (ids of control tokens)
IgnoreSets == SUBSET {EosTokenId, EosTokenId + 1}

\* self.keywords = ["within", "containing"]
Keywords ==
    << <<"w","i","t","h","i","n">>,
       <<"c","o","n","t","a","i","n","i","n","g">> >>

\* self.attributes = ["tag", "word", "lempos", "lc", "lemma_lc"]
Attributes ==
    << <<"t","a","g">>,
       <<"w","o","r","d">>,
       <<"l","e","m","p","o","s">>,
       <<"l","c">>,
       <<"l","e","m","m","a","_","l","c">> >>

\* self.structures = ["s"]
Structures == << <<"s">> >>

\* the characters fed one at a time: every letter of a keyword or an
\* attribute, the characters the automaton treats specially, and two
\* characters ("!", "x") that occur in no name
Chars ==
    {"[", "]", "\"", "=", " ", "!", "x", "_",
     "a", "c", "d", "e", "g", "h", "i", "l", "m", "n", "o", "p", "r", "s",
     "t", "w"}

\* the characters of the texts handed to add_string
StrChars == {"[", "]", "\"", "=", "l", "c"}

InputStrings == UNION {[1..n -> StrChars] : n \in 0..MaxLen}

(***************************************************************************)
(* CQLChecker (the incremental checker).                                   *)
(***************************************************************************)
\* CQLChecker.__init__: the fields of a fresh checker
CQLChecker ==
    [in_squere_bracket   |-> FALSE,
     in_regex            |-> FALSE,
     symbol              |-> <<>>,
     ignore_tokens       |-> {},
     is_valid            |-> FALSE,
     eos_token_id        |-> EosTokenId,
     keywords            |-> Keywords,
     attributes          |-> Attributes,
     is_attribute_writen |-> FALSE,
     structures          |-> Structures,
     is_in_structure     |-> FALSE]

\* str.startswith
startswith(s, prefix) ==
    /\ Len(prefix) <= Len(s)
    /\ SubSeq(s, 1, Len(prefix)) = prefix

\* match_prefix with a fault: whole-name comparison instead of startswith
match_prefix_equal(prefix, string_list) ==
    \E i \in DOMAIN string_list : string_list[i] = prefix

\* CQLChecker.match_prefix
match_prefix(prefix, string_list) ==
    \E i \in DOMAIN string_list : startswith(string_list[i], prefix)

\* symbol in self.attributes / self.keywords
in_list(symbol, string_list) ==
    \E i \in DOMAIN string_list : string_list[i] = symbol

\* the result of add_char: the returned bool and the object afterwards
Ret(b, st) == [ret |-> b, st |-> st]

\* add_char_awaiting with a fault: the space ends the awaiting phase too
add_char_awaiting_space_ends(st, c) ==
    IF c \in {"=", " "}
    THEN Ret(TRUE, [st EXCEPT !.is_attribute_writen = FALSE])
    ELSE Ret(FALSE, st)

\* add_char, the branch taken while is_attribute_writen
add_char_awaiting(st, c) ==
    IF c \in {"=", " "}
    THEN IF c = "="
         THEN Ret(TRUE, [st EXCEPT !.is_attribute_writen = FALSE])
         ELSE Ret(TRUE, st)
    ELSE Ret(FALSE, st)

\* add_char_bracket with a fault: "[" forgets to clear is_valid
add_char_bracket_keeps_valid(st, c) ==
    IF c = "["
    THEN IF st.in_squere_bracket
         THEN Ret(FALSE, st)
         ELSE Ret(TRUE, [st EXCEPT !.in_squere_bracket = TRUE])
    ELSE IF st.in_squere_bracket
         THEN Ret(TRUE, [st EXCEPT !.in_squere_bracket = FALSE,
                                   !.is_valid = TRUE])
         ELSE Ret(FALSE, st)

\* add_char, the branches of "[" and "]" with an empty symbol
add_char_bracket(st, c) ==
    IF c = "["
    THEN IF st.in_squere_bracket
         THEN Ret(FALSE, st)
         ELSE Ret(TRUE, [st EXCEPT !.in_squere_bracket = TRUE,
                                   !.is_valid = FALSE])
    ELSE IF st.in_squere_bracket
         THEN Ret(TRUE, [st EXCEPT !.in_squere_bracket = FALSE,
                                   !.is_valid = TRUE])
         ELSE Ret(FALSE, st)

\* add_char_attribute with a fault: a completed name is left in the symbol
add_char_attribute_keeps_symbol(st, c) ==
    IF match_prefix(st.symbol \o <<c>>, st.attributes)
    THEN LET sym == st.symbol \o <<c>>
         IN  IF in_list(sym, st.attributes)
             THEN Ret(TRUE, [st EXCEPT !.symbol = sym,
                                       !.is_attribute_writen = TRUE])
             ELSE Ret(TRUE, [st EXCEPT !.symbol = sym])
    ELSE Ret(FALSE, st)

\* add_char, the branch taken inside a bracket: the attribute name
add_char_attribute(st, c) ==
    IF match_prefix(st.symbol \o <<c>>, st.attributes)
    THEN LET sym == st.symbol \o <<c>>
         IN  IF in_list(sym, st.attributes)
             THEN Ret(TRUE, [st EXCEPT !.symbol = <<>>,
                                       !.is_attribute_writen = TRUE])
             ELSE Ret(TRUE, [st EXCEPT !.symbol = sym])
    ELSE Ret(FALSE, st)

\* add_char_keyword with a fault: a completed keyword leaves is_valid alone
add_char_keyword_keeps_valid(st, c) ==
    IF match_prefix(st.symbol \o <<c>>, st.keywords)
    THEN LET sym == st.symbol \o <<c>>
         IN  IF in_list(sym, st.keywords)
             THEN Ret(TRUE, [st EXCEPT !.symbol = <<>>])
             ELSE Ret(TRUE, [st EXCEPT !.symbol = sym])
    ELSE Ret(FALSE, st)

\* add_char, the branch taken outside a bracket: the keyword
add_char_keyword(st, c) ==
    IF match_prefix(st.symbol \o <<c>>, st.keywords)
    THEN LET sym == st.symbol \o <<c>>
         IN  IF in_list(sym, st.keywords)
             THEN Ret(TRUE, [st EXCEPT !.symbol = <<>>,
                                       !.is_valid = FALSE])
             ELSE Ret(TRUE, [st EXCEPT !.symbol = sym])
    ELSE Ret(FALSE, st)

\* add_char_quote with a fault: brackets inside a quoted literal are not skipped
add_char_quote_sees_brackets(st, c) ==
    IF st.in_regex
    THEN IF c = "\""
         THEN Ret(TRUE, [st EXCEPT !.in_regex = FALSE])
         ELSE IF c \in {"[", "]"}
              THEN add_char_bracket(st, c)
              ELSE Ret(TRUE, st)
    ELSE Ret(TRUE, [st EXCEPT !.in_regex = TRUE])

\* add_char, the branches of the quoted literal with an empty symbol:
\* inside it every character returns True and the quote ends it; outside
\* it the quote starts it
add_char_quote(st, c) ==
    IF st.in_regex
    THEN IF c = "\""
         THEN Ret(TRUE, [st EXCEPT !.in_regex = FALSE])
         ELSE Ret(TRUE, st)
    ELSE Ret(TRUE, [st EXCEPT !.in_regex = TRUE])

\* CQLChecker.add_char
add_char(st, c) ==
    IF st.is_attribute_writen
    THEN add_char_awaiting(st, c)
    ELSE IF Len(st.symbol) = 0 /\ (st.in_regex \/ c = "\"")
    THEN add_char_quote(st, c)
    ELSE IF Len(st.symbol) = 0 /\ c \in {"[", "]"}
    THEN add_char_bracket(st, c)
    ELSE IF st.in_squere_bracket
    THEN add_char_attribute(st, c)
    ELSE add_char_keyword(st, c)

\* CQLChecker.copy: every field of src assigned to target
copy(src, target) ==
    [target EXCEPT !.in_squere_bracket   = src.in_squere_bracket,
                   !.in_regex            = src.in_regex,
                   !.symbol              = src.symbol,
                   !.ignore_tokens       = src.ignore_tokens,
                   !.is_valid            = src.is_valid,
                   !.eos_token_id        = src.eos_token_id,
                   !.keywords            = src.keywords,
                   !.attributes          = src.attributes,
                   !.is_attribute_writen = src.is_attribute_writen,
                   !.structures          = src.structures,
                   !.is_in_structure     = src.is_in_structure]

RECURSIVE feed_lastonly(_, _)
\* feed with a fault: no early return, the result is that of the last character
feed_lastonly(state, s) ==
    IF s = <<>>
    THEN Ret(TRUE, state)
    ELSE LET r == add_char(state, Head(s))
         IN  IF Len(s) = 1 THEN r ELSE feed_lastonly(r.st, Tail(s))

RECURSIVE feed(_, _)
\* add_string, its loop: for c in s: if not state.add_char(c): return False
feed(state, s) ==
    IF s = <<>>
    THEN Ret(TRUE, state)
    ELSE LET r == add_char(state, Head(s))
         IN  IF ~r.ret THEN Ret(FALSE, r.st) ELSE feed(r.st, Tail(s))

\* the result of add_string: the returned bool and self afterwards
Out(b, self) == [ret |-> b, self |-> self]

\* add_string with a fault: the loop runs on self, not on a copy
add_string_on_self(self, s, token_id) ==
    IF token_id = self.eos_token_id
    THEN Out(self.is_valid, self)
    ELSE IF token_id \in self.ignore_tokens
    THEN Out(TRUE, self)
    ELSE LET r == feed(self, s)
         IN  Out(r.ret, r.st)

\* add_string with a fault: the copy is never committed back into self
add_string_no_commit(self, s, token_id) ==
    IF token_id = self.eos_token_id
    THEN Out(self.is_valid, self)
    ELSE IF token_id \in self.ignore_tokens
    THEN Out(TRUE, self)
    ELSE LET r == feed(copy(self, CQLChecker), s)
         IN  Out(r.ret, self)

\* add_string with a fault: the terminator's text is replayed before the test
add_string_eos_after(self, s, token_id) ==
    IF token_id \in self.ignore_tokens /\ token_id # self.eos_token_id
    THEN Out(TRUE, self)
    ELSE LET r == feed(copy(self, CQLChecker), s)
         IN  IF token_id = self.eos_token_id
             THEN Out(r.ret /\ r.st.is_valid, self)
             ELSE IF ~r.ret THEN Out(FALSE, self)
                  ELSE Out(TRUE, copy(r.st, self))

\* CQLChecker.add_string
add_string(self, s, token_id) ==
    IF token_id = self.eos_token_id
    THEN Out(self.is_valid, self)
    ELSE IF token_id \in self.ignore_tokens
    THEN Out(TRUE, self)
    ELSE LET state == copy(self, CQLChecker)
             r     == feed(state, s)
         IN  IF ~r.ret
             THEN Out(FALSE, self)
             ELSE Out(TRUE, copy(r.st, self))

(***************************************************************************)
(* The full validator: the lark grammar of cql_checker.CQLChecker, built   *)
(* for the token attributes of the incremental checker.  The recognizer    *)
(* follows these rules of the grammar, character by character:             *)
(*   start: (match)*                                                       *)
(*   match: token | space | default_attr                                   *)
(*   space: / /                                                            *)
(*   default_attr: /"[^"]*/ /"/                                            *)
(*   token: /!?\[/ token_limits_brackets /\]/ (space)*                     *)
(*   token_limits_brackets: token_limits                                   *)
(*   token_limits: (space)* (token_attribute_value)?                       *)
(*   token_attribute_value: (space)* (/!/)? (space)* token_attribute       *)
(*                          (space)* (/=/|/==/|/!=/) (space)* value        *)
(*                          (space)*                                       *)
(*   value: /"[^"]*/ /"/                                                   *)
(*   token_attribute: one alternative per declared attribute               *)
(* Every string it accepts has a derivation in the grammar; the rules left *)
(* out (structures, meet/union, repetition, global conditions) only add    *)
(* more accepted strings.                                                  *)
(***************************************************************************)
Gram(q, name) == [q |-> q, name |-> name]

\* token_attribute: the alternatives "|".join(f"/{attr}/" for attr in token_attributes)
token_attribute(name, token_attributes) == in_list(name, token_attributes)

\* one character consumed by the grammar; q = "dead" when no rule continues
GrammarStep(g, c, token_attributes) ==
    CASE g.q = "match" ->
            IF c = " " THEN Gram("match", <<>>)
            ELSE IF c = "\"" THEN Gram("default_attr", <<>>)
            ELSE IF c = "[" THEN Gram("token_limits", <<>>)
            ELSE IF c = "!" THEN Gram("token_open", <<>>)
            ELSE Gram("dead", <<>>)
      [] g.q = "token_open" ->
            IF c = "[" THEN Gram("token_limits", <<>>) ELSE Gram("dead", <<>>)
      [] g.q = "default_attr" ->
            IF c = "\"" THEN Gram("match", <<>>) ELSE Gram("default_attr", <<>>)
      [] g.q = "token_limits" ->
            IF c = " " THEN Gram("token_limits", <<>>)
            ELSE IF c = "]" THEN Gram("match", <<>>)
            ELSE IF c = "!" THEN Gram("negated", <<>>)
            ELSE IF match_prefix(<<c>>, token_attributes)
                 THEN Gram("token_attribute", <<c>>)
            ELSE Gram("dead", <<>>)
      [] g.q = "negated" ->
            IF c = " " THEN Gram("negated", <<>>)
            ELSE IF match_prefix(<<c>>, token_attributes)
                 THEN Gram("token_attribute", <<c>>)
            ELSE Gram("dead", <<>>)
      [] g.q = "token_attribute" ->
            IF match_prefix(g.name \o <<c>>, token_attributes)
                 THEN Gram("token_attribute", g.name \o <<c>>)
            ELSE IF ~token_attribute(g.name, token_attributes)
                 THEN Gram("dead", <<>>)
            ELSE IF c = " " THEN Gram("comparator", <<>>)
            ELSE IF c = "=" THEN Gram("eq", <<>>)
            ELSE IF c = "!" THEN Gram("neq", <<>>)
            ELSE Gram("dead", <<>>)
      [] g.q = "comparator" ->
            IF c = " " THEN Gram("comparator", <<>>)
            ELSE IF c = "=" THEN Gram("eq", <<>>)
            ELSE IF c = "!" THEN Gram("neq", <<>>)
            ELSE Gram("dead", <<>>)
      [] g.q = "eq" ->
            IF c = "=" \/ c = " " THEN Gram("value_pre", <<>>)
            ELSE IF c = "\"" THEN Gram("value", <<>>)
            ELSE Gram("dead", <<>>)
      [] g.q = "neq" ->
            IF c = "=" THEN Gram("value_pre", <<>>) ELSE Gram("dead", <<>>)
      [] g.q = "value_pre" ->
            IF c = " " THEN Gram("value_pre", <<>>)
            ELSE IF c = "\"" THEN Gram("value", <<>>)
            ELSE Gram("dead", <<>>)
      [] g.q = "value" ->
            IF c = "\"" THEN Gram("value_end", <<>>) ELSE Gram("value", <<>>)
      [] g.q = "value_end" ->
            IF c = " " THEN Gram("value_end", <<>>)
            ELSE IF c = "]" THEN Gram("match", <<>>)
            ELSE Gram("dead", <<>>)
      [] OTHER -> Gram("dead", <<>>)

\* CQLChecker.parse raises nothing: the text read so far is a complete query
parse_ok(g) == g.q = "match"

(***************************************************************************)
(* CQLRemoteChecker (the remote prefix oracle).  A response of the         *)
(* endpoint is the parsed JSON object, a function from its keys.           *)
(***************************************************************************)
\* longest text handed to one remote add_string call
MaxUnit == 1
\* longest accepted-so-far text
MaxCql == 2

\* the characters of the texts handed to the remote checker
RemoteChars == {"[", "a", " "}

RemoteUnits == UNION {[1..n -> RemoteChars] : n \in 0..MaxUnit}

\* "syntax error, unexpected "
SyntaxErrorUnexpected ==
    <<"s", "y", "n", "t", "a", "x", " ", "e", "r", "r", "o", "r", ",",
      " ", "u", "n", "e", "x", "p", "e", "c", "t", "e", "d", " ">>

\* "end of file"
EndOfFile ==
    <<"e", "n", "d", " ", "o", "f", " ", "f", "i", "l", "e">>

\* ", expecting "
Expecting ==
    <<",", " ", "e", "x", "p", "e", "c", "t", "i", "n", "g", " ">>

\* " near position "
NearPosition ==
    <<" ", "n", "e", "a", "r", " ", "p", "o", "s", "i", "t", "i", "o",
      "n", " ">>

\* "WORD"
Word ==
    <<"W", "O", "R", "D">>

\* "REGEXP or EQ"
RegexpOrEq ==
    <<"R", "E", "G", "E", "X", "P", " ", "o", "r", " ", "E", "Q">>

\* "RBRACKET or BIN_OR"
RbracketOrBinOr ==
    <<"R", "B", "R", "A", "C", "K", "E", "T", " ", "o", "r", " ", "B",
      "I", "N", "_", "O", "R">>

\* "RBRACKET"
Rbracket ==
    <<"R", "B", "R", "A", "C", "K", "E", "T">>

\* "syntax error, unexpected end of file near position "
PatternEof == SyntaxErrorUnexpected \o EndOfFile \o NearPosition

\* "syntax error, unexpected WORD, expecting end of file near position "
PatternWord ==
    SyntaxErrorUnexpected \o Word \o Expecting \o EndOfFile \o NearPosition

\* "syntax error, unexpected end of file, expecting REGEXP or EQ near position "
PatternRegexp ==
    SyntaxErrorUnexpected \o EndOfFile \o Expecting \o RegexpOrEq
        \o NearPosition

\* "syntax error, unexpected end of file, expecting RBRACKET or BIN_OR near position "
PatternRbracket ==
    SyntaxErrorUnexpected \o EndOfFile \o Expecting \o RbracketOrBinOr
        \o NearPosition

\* the error messages the endpoint answers with in the model: each pattern
\* followed by a position, and two messages of other shapes
\*   "syntax error, unexpected RBRACKET near position 7"
\*   "syntax error, unexpected end of file, expecting RBRACKET near position 7"
Messages ==
    { PatternEof \o <<"7">>,
      PatternWord \o <<"7">>,
      PatternRegexp \o <<"7">>,
      PatternRbracket \o <<"7">>,
      SyntaxErrorUnexpected \o Rbracket \o NearPosition \o <<"7">>,
      SyntaxErrorUnexpected \o EndOfFile \o Expecting \o Rbracket
          \o NearPosition \o <<"7">> }

\* the JSON objects the endpoint answers with: success, an error message,
\* and an object with neither a success result nor an error
Responses ==
    {[result |-> "ok"], [result |-> "failed"]} \cup {[error |-> m] : m \in Messages}

\* what requests.get(...).json() gives: a response, or an exception
\* (timeout, connection error, unparsable body)
Replies ==
    {[kind |-> "json", body |-> r] : r \in Responses}
        \cup {[kind |-> "exception", body |-> [result |-> "none"]]}

\* urllib.parse.quote_plus on one character: letters, digits and _.-~ are
\* kept, the space becomes "+", any other character its %XX escape
quote_plus_char(c) ==
    CASE c = " "  -> <<"+">>
      [] c = "["  -> <<"%", "5", "B">>
      [] c = "]"  -> <<"%", "5", "D">>
      [] c = "\"" -> <<"%", "2", "2">>
      [] c = "="  -> <<"%", "3", "D">>
      [] c = "!"  -> <<"%", "2", "1">>
      [] OTHER    -> <<c>>

RECURSIVE quote_plus(_)
\* urllib.parse.quote_plus
quote_plus(s) ==
    IF s = <<>> THEN <<>> ELSE quote_plus_char(Head(s)) \o quote_plus(Tail(s))

\* CQLRemoteChecker.__init__: the fields of a fresh remote checker
\* (corpname "bnc", already quoted)
CQLRemoteChecker ==
    [cql           |-> <<>>,
     corpname      |-> quote_plus(<<"b", "n", "c">>),
     eos_token_id  |-> EosTokenId,
     ignore_tokens |-> {}]

\* the request of one call: the corpus and the quoted candidate
Request(corpname, cql_urlencoded) ==
    [corpname |-> corpname, cql |-> cql_urlencoded]

\* remote_request with a fault: the unit is appended for the terminator too
remote_request_always_appends(self, s, token_id) ==
    Request(self.corpname, quote_plus(self.cql \o s))

\* CQLRemoteChecker.add_string, the request it sends
remote_request(self, s, token_id) ==
    IF token_id = self.eos_token_id
    THEN Request(self.corpname, quote_plus(self.cql))
    ELSE Request(self.corpname, quote_plus(self.cql \o s))

\* "error" in response and response["error"].startswith(pattern)
error_startswith(response, pattern) ==
    /\ "error" \in DOMAIN response
    /\ startswith(response["error"], pattern)

\* the four tests of the error message, in the order of the code
open_prefix(response) ==
    \/ error_startswith(response, PatternEof)
    \/ error_startswith(response, PatternWord)
    \/ error_startswith(response, PatternRegexp)
    \/ error_startswith(response, PatternRbracket)

\* remote_classify with a fault: an open prefix passes the terminator call
remote_classify_open_passes_eos(self, s, token_id, response) ==
    IF "result" \in DOMAIN response /\ response["result"] = "ok"
    THEN Out(TRUE, [self EXCEPT !.cql = self.cql \o s])
    ELSE IF open_prefix(response)
    THEN Out(TRUE, [self EXCEPT !.cql = self.cql \o s])
    ELSE Out(FALSE, self)

\* remote_classify with a fault: success does not commit the unit
remote_classify_ok_no_commit(self, s, token_id, response) ==
    IF "result" \in DOMAIN response /\ response["result"] = "ok"
    THEN Out(TRUE, self)
    ELSE IF open_prefix(response)
    THEN IF token_id = self.eos_token_id
         THEN Out(FALSE, self)
         ELSE Out(TRUE, [self EXCEPT !.cql = self.cql \o s])
    ELSE Out(FALSE, self)

\* remote_classify with a fault: any error message counts as an open prefix
remote_classify_any_error_open(self, s, token_id, response) ==
    IF "result" \in DOMAIN response /\ response["result"] = "ok"
    THEN Out(TRUE, [self EXCEPT !.cql = self.cql \o s])
    ELSE IF "error" \in DOMAIN response
    THEN IF token_id = self.eos_token_id
         THEN Out(FALSE, self)
         ELSE Out(TRUE, [self EXCEPT !.cql = self.cql \o s])
    ELSE Out(FALSE, self)

\* CQLRemoteChecker.add_string, from the response to the return
remote_classify(self, s, token_id, response) ==
    IF "result" \in DOMAIN response /\ response["result"] = "ok"
    THEN Out(TRUE, [self EXCEPT !.cql = self.cql \o s])
    ELSE IF open_prefix(response)
    THEN IF token_id = self.eos_token_id
         THEN Out(FALSE, self)
         ELSE Out(TRUE, [self EXCEPT !.cql = self.cql \o s])
    ELSE Out(FALSE, self)

\* the end of a remote call: the returned bool, whether an exception left
\* add_string instead, and self afterwards
RemoteOut(r, raised) == [ret |-> r.ret, raised |-> raised, self |-> r.self]

\* remote_reply with a fault: a transport failure is caught and returns False
remote_reply_swallows(self, s, token_id, reply) ==
    IF reply.kind = "exception"
    THEN RemoteOut(Out(FALSE, self), FALSE)
    ELSE RemoteOut(remote_classify(self, s, token_id, reply.body), FALSE)

\* CQLRemoteChecker.add_string after the request: requests.get(...).json()
\* raises, and the exception leaves add_string, or gives the response
remote_reply(self, s, token_id, reply) ==
    IF reply.kind = "exception"
    THEN RemoteOut(Out(FALSE, self), TRUE)
    ELSE RemoteOut(remote_classify(self, s, token_id, reply.body), FALSE)

(***************************************************************************)
(* The grammar builder: cql_gbnf.get_grammar.  The grammar text is the     *)
(* template with its three placeholders filled; it is held as the three    *)
(* fillings, each structure entry as the fillings of structures_grammar.   *)
(***************************************************************************)
\* most structures of a schema
MaxStructs == 2

\* the raw structure names of the schemas
StructNames ==
    { <<"s">>, <<"s", "_">>, <<"s", "y", "x", "z", "h">>, <<"s", "1">> }

\* the attribute tuples a structure declares
StructAttrs ==
    { <<>>, << <<"a", "u", "d", "i", "o">> >>, << <<"w", "h", "o">> >> }

\* a schema's structures: a tuple of (name, attributes) pairs
StructureTuples ==
    UNION {[1..n -> StructNames \X StructAttrs] : n \in 0..MaxStructs}

\* a schema's token attributes
TokenAttributeTuples ==
    { <<>>, << <<"t", "a", "g">>, <<"w", "o", "r", "d">> >> }

\* str(i) for i in range(10)
Digits == <<"0", "1", "2", "3", "4", "5", "6", "7", "8", "9">>

\* chr(ord('a') + i) for i in range(10)
Letters == <<"a", "b", "c", "d", "e", "f", "g", "h", "i", "j">>

RECURSIVE replace(_, _, _)
\* str.replace of the one-character string old by new
replace(s, old, new) ==
    IF s = <<>> THEN <<>>
    ELSE (IF Head(s) = old THEN new ELSE <<Head(s)>>)
             \o replace(Tail(s), old, new)

RECURSIVE replace_digits(_, _)
\* the loop over range(10), from index i on (Digits[i] is str(i - 1))
replace_digits(sclean, i) ==
    IF i > Len(Digits) THEN sclean
    ELSE replace_digits(
             replace(sclean, Digits[i],
                     <<Letters[i], Letters[i], Letters[i], Letters[i]>>),
             i + 1)

\* the identifier get_grammar derives from a raw structure name
sclean(name) ==
    replace_digits(replace(name, "_", <<"y", "x", "z", "h">>), 1)

RECURSIVE join(_, _)
\* sep.join(items)
join(sep, items) ==
    IF items = <<>> THEN <<>>
    ELSE IF Len(items) = 1 THEN items[1]
    ELSE items[1] \o sep \o join(sep, Tail(items))

\* f"\"{key}\""
quoted(key) == <<"\"">> \o key \o <<"\"">>

\* sattributes with a fault: every structure gets the attributes of all
sattributes_of_all(attrs) ==
    join(<<"|">>, << quoted(<<"a", "u", "d", "i", "o">>),
                     quoted(<<"w", "h", "o">>) >>)

\* the alternatives of a structure's attribute rule
sattributes(attrs) ==
    LET joined == join(<<"|">>, [k \in DOMAIN attrs |-> quoted(attrs[k])])
    IN  IF Len(joined) = 0 THEN <<"(", ")">> ELSE joined

\* structures_grammar with its three placeholders filled for structure s
structure_entry(s) ==
    [STRUCT_NAME     |-> sclean(s[1]),
     RAW_NAME        |-> s[1],
     STRUCTURE_ATTRS |-> sattributes(s[2])]

\* "structureentery"
StructureEntery ==
    <<"s", "t", "r", "u", "c", "t", "u", "r", "e", "e", "n", "t", "e", "r", "y">>

\* "%%TOKEN_ATTRIBUTES%%"
TokenAttributesPlaceholder ==
    <<"%", "%", "T", "O", "K", "E", "N", "_", "A", "T", "T", "R", "I", "B", "U", "T", "E", "S", "%", "%">>

\* "%%STRUCTURES%%"
StructuresPlaceholder ==
    <<"%", "%", "S", "T", "R", "U", "C", "T", "U", "R", "E", "S", "%", "%">>

\* "%%STRUCTURE_ENTRIES%%", the line that the structure entries replace
StructureEntriesPlaceholder ==
    << [STRUCT_NAME     |-> <<"%", "%", "S", "T", "R", "U", "C", "T", "U", "R", "E", "_", "E", "N", "T", "R", "I", "E", "S", "%", "%">>,
        RAW_NAME        |-> <<>>,
        STRUCTURE_ATTRS |-> <<>>] >>

\* the module's grammar: the template, its three placeholders in place
grammar_template ==
    [TOKEN_ATTRIBUTES  |-> TokenAttributesPlaceholder,
     STRUCTURES        |-> StructuresPlaceholder,
     STRUCTURE_ENTRIES |-> StructureEntriesPlaceholder]

\* str.replace(old, new) on a part of the text that is the placeholder old
\* or holds no occurrence of it
str_replace(part, old, new) == IF part = old THEN new ELSE part

\* get_grammar: the text it returns, the template with the placeholders
\* it still holds replaced
get_grammar(grammar, token_attributes, structures) ==
    LET structures_list == [k \in DOMAIN structures |-> sclean(structures[k][1])]
        structgrammar   == [k \in DOMAIN structures |-> structure_entry(structures[k])]
    IN  [TOKEN_ATTRIBUTES  |->
             str_replace(grammar.TOKEN_ATTRIBUTES, TokenAttributesPlaceholder,
                 join(<<"|">>, [k \in DOMAIN token_attributes |->
                                   quoted(token_attributes[k])])),
         STRUCTURES        |->
             str_replace(grammar.STRUCTURES, StructuresPlaceholder,
                 join(<<" ", "|", " ">>, [k \in DOMAIN structures_list |->
                                             StructureEntery \o structures_list[k]])),
         STRUCTURE_ENTRIES |->
             str_replace(grammar.STRUCTURE_ENTRIES, StructureEntriesPlaceholder,
                 structgrammar)]

\* get_grammar_frame with a fault: the filled text is assigned to the
\* module's grammar (global grammar)
get_grammar_frame_global(grammar, token_attributes, structures) ==
    [ret              |-> get_grammar(grammar, token_attributes, structures),
     grammar          |-> get_grammar(grammar, token_attributes, structures),
     token_attributes |-> token_attributes,
     structures       |-> structures]

\* get_grammar at its return: the text returned, and the module's grammar
\* and the caller's schema as the call leaves them (grammar = ... assigns
\* to the parameter, the schema is only read)
get_grammar_frame(grammar, token_attributes, structures) ==
    [ret              |-> get_grammar(grammar, token_attributes, structures),
     grammar          |-> grammar,
     token_attributes |-> token_attributes,
     structures       |-> structures]

(***************************************************************************)
(* Derivations in the built grammars.  A rule is read as a function from   *)
(* the set of positions of a text where it may start to the set of         *)
(* positions where it may end.                                             *)
(***************************************************************************)
\* a literal
lit(text, P, l) ==
    {p + Len(l) : p \in {q \in P : /\ q + Len(l) <= Len(text)
                                   /\ SubSeq(text, q + 1, q + Len(l)) = l}}

\* one of the literals ls
alt(text, P, ls) == UNION {lit(text, P, ls[k]) : k \in DOMAIN ls}

\* an optional literal
opt(text, P, l) == P \cup lit(text, P, l)

\* space ::= (" ")*    and    (space)* of the lark grammar
spaces(text, P) ==
    {q \in 0..Len(text) :
        \E p \in P : p <= q /\ \A i \in (p + 1)..q : text[i] = " "}

\* [0-9]+
digits(text, P) ==
    {q \in 0..Len(text) :
        \E p \in P : p < q /\ \A i \in (p + 1)..q :
            \E d \in DOMAIN Digits : text[i] = Digits[d]}

RECURSIVE split(_, _)
\* str.split(sep) for a one-character sep
split(s, sep) ==
    IF \A i \in DOMAIN s : s[i] # sep THEN <<s>>
    ELSE LET i == CHOOSE j \in DOMAIN s :
                      s[j] = sep /\ \A k \in 1..(j - 1) : s[k] # sep
         IN  <<SubSeq(s, 1, i - 1)>> \o split(SubSeq(s, i + 1, Len(s)), sep)

RECURSIVE strip(_)
\* str.strip(" ")
strip(s) ==
    IF s = <<>> THEN s
    ELSE IF Head(s) = " " THEN strip(Tail(s))
    ELSE IF s[Len(s)] = " " THEN strip(SubSeq(s, 1, Len(s) - 1))
    ELSE s

\* one alternative of a GBNF rule body: a "literal", the empty group (),
\* or the name of a rule
gbnf_alternative(piece) ==
    IF Len(piece) >= 2 /\ piece[1] = "\"" /\ piece[Len(piece)] = "\""
    THEN SubSeq(piece, 2, Len(piece) - 1)
    ELSE IF piece = <<"(", ")">> THEN <<>>
    ELSE piece

\* the alternatives of a GBNF rule body  a | b | c
gbnf_alternatives(body) ==
    LET pieces == split(body, "|")
    IN  [k \in DOMAIN pieces |-> gbnf_alternative(strip(pieces[k]))]

\* tokenO ::= "=" | "==" | "!=" | "!==" | ">=" | "<="
tokenO ==
    << <<"=">>, <<"=", "=">>, <<"!", "=">>, <<"!", "=", "=">>,
       <<">", "=">>, <<"<", "=">> >>

\* regex ::= ([^"] | "\\\"")*  between positions a and b of the text
gbnf_regex(text, a, b) ==
    \A i \in a..b : text[i] = "\"" => i > a /\ text[i - 1] = "\\"

\* tokenV ::= "\"" regex "\""
tokenV(text, P) ==
    {q \in 0..Len(text) :
        \E p \in P : /\ q >= p + 2
                     /\ text[p + 1] = "\""
                     /\ text[q] = "\""
                     /\ gbnf_regex(text, p + 2, q - 1)}

\* structureconstraint<X> ::= structureA<X> space structureO space structureV
structureconstraint(text, P, entry) ==
    tokenV(text,
        spaces(text,
            alt(text,
                spaces(text,
                    alt(text, P, gbnf_alternatives(entry.STRUCTURE_ATTRS))),
                tokenO)))

RECURSIVE structureconstraint_more(_, _, _, _)
\* (space [&|] space structureconstraint<X>)*, at most n times
structureconstraint_more(text, P, entry, n) ==
    IF n = 0 \/ P = {} THEN P
    ELSE P \cup structureconstraint_more(text,
                    structureconstraint(text,
                        spaces(text,
                            alt(text, spaces(text, P), << <<"&">>, <<"|">> >>)),
                        entry),
                    entry, n - 1)

\* structureconstraints<X>, its alternatives without parentheses:
\*   space (structureconstraint<X>
\*          | structureconstraint<X> space ([&|] space structureconstraint<X>)+)
\*   space
\* (the two alternatives left out start with "(")
structureconstraints(text, P, entry) ==
    spaces(text,
        structureconstraint_more(text,
            structureconstraint(text, spaces(text, P), entry),
            entry, Len(text)))

\* structureentery<X> ::= space ("!")? space "<" space ("/")? space "<raw>"
\*     space structureconstraints<X>? space ("/")? space ">" space
structureentery(text, P, entry) ==
    LET name == lit(text,
                    spaces(text,
                        opt(text,
                            spaces(text,
                                lit(text,
                                    spaces(text,
                                        opt(text, spaces(text, P), <<"!">>)),
                                    <<"<">>)),
                            <<"/">>)),
                    entry.RAW_NAME)
        cons == spaces(text, name)
                    \cup structureconstraints(text, spaces(text, name), entry)
    IN  spaces(text,
            lit(text,
                spaces(text, opt(text, spaces(text, cons), <<"/">>)),
                <<">">>))

\* the rule a name stands for in the built grammar: of the entries written
\* under that name the last one (a later definition of a rule replaces an
\* earlier one)
gbnf_rule(grammar, name) ==
    LET ks == {k \in DOMAIN grammar.STRUCTURE_ENTRIES :
                  StructureEntery \o grammar.STRUCTURE_ENTRIES[k].STRUCT_NAME
                      = name}
    IN  IF ks = {} THEN <<>>
        ELSE <<grammar.STRUCTURE_ENTRIES[CHOOSE k \in ks : \A j \in ks : j <= k]>>

\* structure ::= %%STRUCTURES%%  derives the whole text
gbnf_structure(grammar, text) ==
    LET names == gbnf_alternatives(grammar.STRUCTURES)
    IN  \E k \in DOMAIN names :
            LET rule == gbnf_rule(grammar, names[k])
            IN  /\ rule # <<>>
                /\ Len(text) \in structureentery(text, {0}, rule[1])

\* value: /"[^"]*/ /"/
lark_value(text, P) ==
    {q \in 0..Len(text) :
        \E p \in P : /\ q >= p + 2
                     /\ text[p + 1] = "\""
                     /\ text[q] = "\""
                     /\ \A i \in (p + 2)..(q - 1) : text[i] # "\""}

\* "|".join(["/" + s + "/" for s in structure[1]]) inside ( ): the declared
\* attributes, or the empty alternative of ()
lark_structure_attrs(structure) ==
    IF structure[2] = <<>> THEN << <<>> >> ELSE structure[2]

RECURSIVE lark_structure_constraints(_, _, _, _)
\* ( (attrs) (space)* (/=/|/==/|/!=/) (space)* value )*, at most n times
lark_structure_constraints(text, P, structure, n) ==
    IF n = 0 \/ P = {} THEN P
    ELSE P \cup lark_structure_constraints(text,
                    lark_value(text,
                        spaces(text,
                            alt(text,
                                spaces(text,
                                    alt(text, P, lark_structure_attrs(structure))),
                                << <<"=">>, <<"=", "=">>, <<"!", "=">> >>))),
                    structure, n - 1)

\* generate_structures: the rule structure_<name> of one structure
generate_structures(text, P, structure) ==
    lark_structure_constraints(text,
        spaces(text, lit(text, P, structure[1])), structure, Len(text))

\* structure: ( /< *\/?/ (space)* (structure_a|...) (space)* />/ )
\*          | ( /</ (space)* (structure_a|...) (space)* /\/ *>/ )
\* derives the whole text
lark_structure(structures, text) ==
    \E k \in DOMAIN structures :
        \/ Len(text) \in
              lit(text,
                  spaces(text,
                      generate_structures(text,
                          spaces(text,
                              opt(text, spaces(text, lit(text, {0}, <<"<">>)),
                                  <<"/">>)),
                          structures[k])),
                  <<">">>)
        \/ Len(text) \in
              lit(text,
                  spaces(text,
                      lit(text,
                          spaces(text,
                              generate_structures(text,
                                  spaces(text, lit(text, {0}, <<"<">>)),
                                  structures[k])),
                          <<"/">>)),
                  <<">">>)

\* tokenconstraint, its first alternative:
\*   space ("!" space)? tokenA space tokenO space tokenV space
tokenconstraint(grammar, text, P) ==
    spaces(text,
        tokenV(text,
            spaces(text,
                alt(text,
                    spaces(text,
                        alt(text,
                            P \cup spaces(text, lit(text, spaces(text, P), <<"!">>))
                              \cup spaces(text, P),
                            gbnf_alternatives(grammar.TOKEN_ATTRIBUTES))),
                    tokenO))))

\* token ::= globalmark? "[" space (tokenconstraints)? space "]" repetition?
\* without mark and repetition, tokenconstraints ::= space tokenconstraint space
gbnf_token(grammar, text, P) ==
    LET open == spaces(text, lit(text, P, <<"[">>))
    IN  lit(text,
            spaces(text,
                open \cup spaces(text, tokenconstraint(grammar, text, open))),
            <<"]">>)

\* keyword, its first alternative without the optional parts:
\*   space token space space space
gbnf_keyword(grammar, text, P) ==
    spaces(text, gbnf_token(grammar, text, spaces(text, P)))

\* "-"? [0-9]+ " " space "-"? [0-9]+
gbnf_offsets(text, P) ==
    digits(text,
        opt(text,
            spaces(text, lit(text, digits(text, opt(text, P, <<"-">>)), <<" ">>)),
            <<"-">>))

\* meet ::= "(meet" space keyword space keyword space
\*          ("-"? [0-9]+ " " space "-"? [0-9]+)? space ")"
\* derives the whole text
gbnf_meet(grammar, text) ==
    LET keywords ==
            spaces(text,
                gbnf_keyword(grammar, text,
                    spaces(text,
                        gbnf_keyword(grammar, text,
                            spaces(text,
                                lit(text, {0}, <<"(", "m", "e", "e", "t">>))))))
    IN  Len(text) \in
            lit(text,
                spaces(text, keywords \cup gbnf_offsets(text, keywords)),
                <<")">>)

\* token_attribute_value, its first alternative:
\*   (space)* (/!/)? (space)* token_attribute (space)* (/=/|/==/|/!=/)
\*   (space)* value (space)*
lark_token_attribute_value(token_attributes, text, P) ==
    spaces(text,
        lark_value(text,
            spaces(text,
                alt(text,
                    spaces(text,
                        alt(text,
                            spaces(text, opt(text, spaces(text, P), <<"!">>)),
                            token_attributes)),
                    << <<"=">>, <<"=", "=">>, <<"!", "=">> >>))))

\* token: (marker)? /!?\[/ token_limits_brackets /\]/ (space)* (repetition)?
\* without marker and repetition,
\* token_limits: (space)* (token_attribute_value)?
lark_token(token_attributes, text, P) ==
    LET open == spaces(text, lit(text, opt(text, P, <<"!">>), <<"[">>))
    IN  spaces(text,
            lit(text,
                open \cup lark_token_attribute_value(token_attributes, text, open),
                <<"]">>))

\* /-?\d+ *-?\d+ *\)/
lark_offsets(text, P) ==
    lit(text,
        spaces(text,
            digits(text,
                opt(text,
                    spaces(text, digits(text, opt(text, P, <<"-">>))),
                    <<"-">>))),
        <<")">>)

\* function_meet: (space)* /\( *meet/ (space)* token (space)* token (space)*
\*                /-?\d+ *-?\d+ *\)/
\* derives the whole text; no other alternative of match derives a text
\* that starts with "(meet"
lark_function_meet(token_attributes, text) ==
    Len(text) \in
        lark_offsets(text,
            spaces(text,
                lark_token(token_attributes, text,
                    spaces(text,
                        lark_token(token_attributes, text,
                            spaces(text,
                                lit(text,
                                    spaces(text,
                                        lit(text, spaces(text, {0}), <<"(">>)),
                                    <<"m", "e", "e", "t">>)))))))

(***************************************************************************)
(* The model request loop: deepseek_r1.call_einfra and shorten_prompt.  A  *)
(* message of the prompt is its role and the length of its content.        *)
(***************************************************************************)
\* most messages of a prompt
MaxPrompt == 3

\* if i >= 10: raise e
MaxAttempts == 10

PromptMessages ==
    [role : {"system"}, len : {1}]
        \cup [role : {"user", "assistant"}, len : {1, 2}]

Prompts == UNION {[1..n -> PromptMessages] : n \in 1..MaxPrompt}

\* what one requests.post and raise_for_status give: a response, an
\* HTTPError whose body says the token count exceeds the context length,
\* an HTTPError of another kind, or another exception (timeout, connection)
ServerAnswers == {"ok", "too_long", "http_error", "exception"}

\* list.pop(k), k counted from 1
pop(prompt, k) == SubSeq(prompt, 1, k - 1) \o SubSeq(prompt, k + 1, Len(prompt))

\* shorten_prompt: the prompt it leaves.  Of the assistant messages after
\* the first message the longest is removed (of equal ones the last), and
\* the user message before it unless that is the first message
shorten_prompt(prompt) ==
    LET lens == {k \in 2..Len(prompt) : prompt[k].role = "assistant"}
    IN  IF lens = {} THEN prompt
        ELSE LET idx == CHOOSE k \in lens : \A j \in lens :
                            \/ prompt[j].len < prompt[k].len
                            \/ prompt[j].len = prompt[k].len /\ j <= k
                 popped == pop(prompt, idx)
             IN  IF idx - 1 > 1 /\ popped[idx - 1].role = "user"
                 THEN pop(popped, idx - 1)
                 ELSE popped

\* no call of call_einfra is running
NoEinfra ==
    [pc |-> "idle", prompt |-> <<>>, i |-> 0, resp |-> "none"]

(***************************************************************************)
(* The repair loop: deepseek_r1.auto_call and call.  What call returns is  *)
(* the query it extracted from the model's answer, "" when it found none.  *)
(***************************************************************************)
\* for _ in range(3)
MaxChecks == 3

\* the queries call returns: none, [] and [
Cqls == { <<>>, <<"[", "]">>, <<"[">> }

\* what check_cql does: it returns, or raises an exception e; error is
\* str(e), which may be empty
CheckOutcomes ==
    { [raised |-> FALSE, error |-> <<>>],
      [raised |-> TRUE,  error |-> <<"e">>],
      [raised |-> TRUE,  error |-> <<>>] }

\* an entry of the record of what auto_call did
Event(ev, text) == [ev |-> ev, text |-> text]

\* no call of auto_call is running
NoAuto ==
    [pc |-> "idle", other |-> FALSE, stage |-> "none", cql |-> <<>>,
     k |-> 0, log |-> <<>>, passed |-> {}]

\* auto_call from the return of call(params) to its next blocking call:
\* the re-prompt for a missing query, the entry into the loop of checks,
\* or the return
auto_call_after_call(a, cql) ==
    LET called == [a EXCEPT !.cql = cql,
                            !.log = Append(a.log, Event("call", cql))]
    IN  IF a.stage = "initial" /\ Len(cql) = 0
        THEN [called EXCEPT !.stage = "nocql",
                            !.log = Append(called.log, Event("append_nocql", <<>>)),
                            !.pc = "call"]
        ELSE IF a.other THEN [called EXCEPT !.pc = "returned"]
        ELSE IF a.k < MaxChecks THEN [called EXCEPT !.pc = "check"]
        ELSE [called EXCEPT !.pc = "returned"]

\* auto_call_after_check with a fault: the loop is while True
auto_call_after_check_unbounded(a, outcome) ==
    LET error == IF outcome.raised THEN outcome.error ELSE <<>>
        checked == [a EXCEPT
                      !.log = Append(a.log,
                                  Event(IF outcome.raised THEN "check_raised"
                                        ELSE "check_ok", outcome.error)),
                      !.passed = IF outcome.raised THEN a.passed
                                 ELSE a.passed \cup {a.cql}]
    IN  IF Len(error) > 0
        THEN [checked EXCEPT !.stage = "repair",
                             !.log = Append(checked.log,
                                            Event("append_error", error)),
                             !.pc = "call"]
        ELSE [checked EXCEPT !.pc = "returned"]

\* auto_call from the end of check_cql to its next blocking call: one
\* iteration of for _ in range(3)
auto_call_after_check(a, outcome) ==
    LET error == IF outcome.raised THEN outcome.error ELSE <<>>
        checked == [a EXCEPT
                      !.k = a.k + 1,
                      !.log = Append(a.log,
                                  Event(IF outcome.raised THEN "check_raised"
                                        ELSE "check_ok", outcome.error)),
                      !.passed = IF outcome.raised THEN a.passed
                                 ELSE a.passed \cup {a.cql}]
    IN  IF Len(error) > 0
        THEN [checked EXCEPT !.stage = "repair",
                             !.log = Append(checked.log,
                                            Event("append_error", error)),
                             !.pc = "call"]
        ELSE [checked EXCEPT !.pc = "returned"]

\* neither loop is running
LoopIdle == einfra = NoEinfra /\ auto = NoAuto

(***************************************************************************)
(* The state machine of a caller driving one checker.                      *)
(***************************************************************************)
NoCall == [op |-> "none", s |-> <<>>, token_id |-> DefaultTokenId,
           ret |-> FALSE, pre |-> CQLChecker]

NoGram == [q |-> "match", name |-> <<>>]

NoRemote == CQLRemoteChecker

NoRemoteCall ==
    [phase |-> "idle", s |-> <<>>, token_id |-> DefaultTokenId,
     pre |-> CQLRemoteChecker, sent |-> <<>>,
     reply |-> [kind |-> "none", body |-> [result |-> "none"]],
     ret |-> FALSE, raised |-> FALSE]

NoBuild ==
    [op |-> "none", schema |-> <<>>,
     token_attributes |-> <<>>, structures |-> <<>>,
     raised |-> "none", returned |-> FALSE,
     grammar |-> grammar_template]

\* no query is being fed
TraceIdle == query = <<>> /\ rets = <<>>

\* the remote checker is not in use
RemoteIdle == remote = NoRemote /\ rcall = NoRemoteCall /\ confirmed = {}

\* no grammar was built
BuilderIdle ==
    built = NoBuild /\ previous = NoBuild /\ template = grammar_template

Init ==
    /\ checker = CQLChecker
    /\ pc = "idle"
    /\ call = NoCall
    /\ gram = NoGram
    /\ accepted_all = TRUE
    /\ TraceIdle
    /\ RemoteIdle
    /\ BuilderIdle
    /\ LoopIdle

\* the caller assigns the public field ignore_tokens
SetIgnoreTokens(ign) ==
    /\ pc = "idle"
    /\ ign # checker.ignore_tokens
    /\ checker' = [checker EXCEPT !.ignore_tokens = ign]
    /\ UNCHANGED <<pc, call, full_vars, trace_vars, remote_vars, builder_vars,
                   loop_vars>>

\* the caller calls checker.add_char(c)
AddCharCall(c) ==
    /\ pc = "idle"
    /\ LET r == add_char(checker, c)
       IN  /\ checker' = r.st
           /\ call' = [op |-> "add_char", s |-> <<c>>,
                       token_id |-> DefaultTokenId,
                       ret |-> r.ret, pre |-> checker]
    /\ pc' = "returned"
    /\ UNCHANGED <<full_vars, trace_vars, remote_vars, builder_vars, loop_vars>>

\* the caller calls checker.add_string(s, token_id)
AddStringCall(s, token_id) ==
    /\ pc = "idle"
    /\ LET r == add_string(checker, s, token_id)
       IN  /\ checker' = r.self
           /\ call' = [op |-> "add_string", s |-> s, token_id |-> token_id,
                       ret |-> r.ret, pre |-> checker]
    /\ pc' = "returned"
    /\ UNCHANGED <<full_vars, trace_vars, remote_vars, builder_vars, loop_vars>>

\* the caller has read the returned value
Return ==
    /\ pc = "returned"
    /\ pc' = "idle"
    /\ call' = NoCall
    /\ UNCHANGED <<checker, full_vars, trace_vars, remote_vars, builder_vars,
                   loop_vars>>

Next ==
    \/ \E ign \in IgnoreSets : SetIgnoreTokens(ign)
    \/ \E c \in Chars : AddCharCall(c)
    \/ \E s \in InputStrings, token_id \in TokenIds : AddStringCall(s, token_id)
    \/ Return

Spec == Init /\ [][Next]_vars

(***************************************************************************)
(* A generator types a query the full grammar can still complete, one      *)
(* character at a time, into the incremental checker.                      *)
(***************************************************************************)
TypeChar(c) ==
    /\ GrammarStep(gram, c, checker.attributes).q # "dead"
    /\ gram' = GrammarStep(gram, c, checker.attributes)
    /\ LET r == add_char(checker, c)
       IN  /\ checker' = r.st
           /\ accepted_all' = (accepted_all /\ r.ret)
           /\ call' = [op |-> "add_char", s |-> <<c>>,
                       token_id |-> DefaultTokenId,
                       ret |-> r.ret, pre |-> checker]
    /\ pc' = "returned"
    /\ UNCHANGED <<trace_vars, remote_vars, builder_vars, loop_vars>>

FullNext == \E c \in Chars : TypeChar(c)

FullSpec == Init /\ [][FullNext]_vars

(***************************************************************************)
(* A generation loop feeds one query to a checker whose attributes the     *)
(* caller declared, a character at a time, and stops at the first          *)
(* character add_char rejects.                                             *)
(***************************************************************************)
\* [word="dog"]
DogQuery ==
    <<"[", "w", "o", "r", "d", "=", "\"", "d", "o", "g", "\"", "]">>

\* [colour="dog"]
ColourQuery ==
    <<"[", "c", "o", "l", "o", "u", "r", "=", "\"", "d", "o", "g", "\"", "]">>

\* [lemma="dog"]
LemmaQuery ==
    <<"[", "l", "e", "m", "m", "a", "=", "\"", "d", "o", "g", "\"", "]">>

\* [tag="dog"]
TagQuery ==
    <<"[", "t", "a", "g", "=", "\"", "d", "o", "g", "\"", "]">>

\* [lemma_lc="dog"]
LemmaLcQuery ==
    <<"[", "l", "e", "m", "m", "a", "_", "l", "c", "=", "\"", "d", "o", "g",
      "\"", "]">>

ExampleQueries == {DogQuery, ColourQuery, LemmaQuery, TagQuery, LemmaLcQuery}

\* the declared attributes {word, lemma}
WordLemma == << <<"w","o","r","d">>, <<"l","e","m","m","a">> >>

\* token_attributes = ("word", "tag", "lemma", "lc", "lempos_lc", "lempos", "lemma_lc")
DefaultTokenAttributes ==
    << <<"w","o","r","d">>,
       <<"t","a","g">>,
       <<"l","e","m","m","a">>,
       <<"l","c">>,
       <<"l","e","m","p","o","s","_","l","c">>,
       <<"l","e","m","p","o","s">>,
       <<"l","e","m","m","a","_","l","c">> >>

AttributeSets == {WordLemma, Attributes, DefaultTokenAttributes}

\* the query  [a="v"]  for an attribute name a
TypedQuery(a) == <<"[">> \o a \o <<"=", "\"", "v", "\"", "]">>

\* one such query for every attribute of every declared set
TypedQueries ==
    UNION { {TypedQuery(attrs[k]) : k \in DOMAIN attrs} :
                attrs \in AttributeSets }

\* a fresh checker with the attributes the caller declares
Declared(attrs) == [CQLChecker EXCEPT !.attributes = attrs]

TraceInit ==
    /\ \E attrs \in AttributeSets : checker = Declared(attrs)
    /\ pc = "idle"
    /\ call = NoCall
    /\ gram = NoGram
    /\ accepted_all = TRUE
    /\ query \in ExampleQueries \cup TypedQueries
    /\ rets = <<>>
    /\ RemoteIdle
    /\ BuilderIdle
    /\ LoopIdle

\* the loop calls add_char on the next character of the query
FeedNext ==
    /\ Len(rets) < Len(query)
    /\ (IF rets = <<>> THEN TRUE ELSE rets[Len(rets)])
    /\ LET c == query[Len(rets) + 1]
           r == add_char(checker, c)
       IN  /\ checker' = r.st
           /\ rets' = Append(rets, r.ret)
           /\ call' = [op |-> "add_char", s |-> <<c>>,
                       token_id |-> DefaultTokenId,
                       ret |-> r.ret, pre |-> checker]
    /\ pc' = "returned"
    /\ UNCHANGED <<query, full_vars, remote_vars, builder_vars, loop_vars>>

TraceNext == FeedNext

TraceSpec == TraceInit /\ [][TraceNext]_vars

(***************************************************************************)
(* The state machine of a caller driving one remote checker.  add_string  *)
(* blocks in requests.get: the call up to the request is one step, the    *)
(* endpoint's reply and the rest of add_string the next.                   *)
(***************************************************************************)
\* urllib.parse.unquote_plus, what the endpoint reads from the cql parameter
RECURSIVE unquote_plus(_)
unquote_plus(q) ==
    IF q = <<>> THEN <<>>
    ELSE IF Head(q) = "+" THEN <<" ">> \o unquote_plus(Tail(q))
    ELSE IF Head(q) = "%" /\ Len(q) >= 3
    THEN LET hex == SubSeq(q, 2, 3)
             c   == CASE hex = <<"5", "B">> -> "["
                      [] hex = <<"5", "D">> -> "]"
                      [] hex = <<"2", "2">> -> "\""
                      [] hex = <<"3", "D">> -> "="
                      [] hex = <<"2", "1">> -> "!"
                      [] OTHER              -> "?"
         IN  <<c>> \o unquote_plus(SubSeq(q, 4, Len(q)))
    ELSE <<Head(q)>> \o unquote_plus(Tail(q))

\* the endpoint classified the text it was sent as valid or as an open prefix
Classified(reply) ==
    /\ reply.kind = "json"
    /\ \/ "result" \in DOMAIN reply.body /\ reply.body["result"] = "ok"
       \/ /\ "error" \in DOMAIN reply.body
          /\ \E p \in {PatternEof, PatternWord, PatternRegexp, PatternRbracket} :
                startswith(reply.body["error"], p)

RemoteInit ==
    /\ checker = CQLChecker
    /\ pc = "idle"
    /\ call = NoCall
    /\ gram = NoGram
    /\ accepted_all = TRUE
    /\ TraceIdle
    /\ RemoteIdle
    /\ BuilderIdle
    /\ LoopIdle

\* the caller assigns ignore_tokens
RemoteSetIgnoreTokens(ign) ==
    /\ rcall.phase = "idle"
    /\ remote' = [remote EXCEPT !.ignore_tokens = ign]
    /\ UNCHANGED <<checker, pc, call, full_vars, trace_vars, rcall, confirmed,
                   builder_vars, loop_vars>>

\* add_string(s, token_id) is called: an ignored unit returns True at once,
\* any other sends the request and waits for the endpoint
RemoteAddStringCall(s, token_id) ==
    /\ rcall.phase = "idle"
    /\ Len(remote.cql) + Len(s) <= MaxCql
    /\ rcall' =
          IF token_id \in remote.ignore_tokens
          THEN [NoRemoteCall EXCEPT !.phase = "returned", !.s = s,
                                    !.token_id = token_id, !.pre = remote,
                                    !.ret = TRUE]
          ELSE [NoRemoteCall EXCEPT !.phase = "waiting", !.s = s,
                                    !.token_id = token_id, !.pre = remote,
                                    !.sent = <<remote_request(remote, s, token_id)>>]
    /\ UNCHANGED <<checker, pc, call, full_vars, trace_vars, remote, confirmed,
                   builder_vars, loop_vars>>

\* the endpoint answers, or the transport fails; add_string runs to its end
RemoteReply(reply) ==
    /\ rcall.phase = "waiting"
    /\ LET r == remote_reply(remote, rcall.s, rcall.token_id, reply)
       IN  /\ remote' = r.self
           /\ rcall' = [rcall EXCEPT !.phase = "returned", !.reply = reply,
                                     !.ret = r.ret, !.raised = r.raised]
    /\ confirmed' =
          IF Classified(reply)
          THEN confirmed \cup {unquote_plus(rcall.sent[1].cql)}
          ELSE confirmed
    /\ UNCHANGED <<checker, pc, call, full_vars, trace_vars, builder_vars,
                   loop_vars>>

\* the caller takes the outcome
RemoteReturn ==
    /\ rcall.phase = "returned"
    /\ rcall' = NoRemoteCall
    /\ UNCHANGED <<checker, pc, call, full_vars, trace_vars, remote, confirmed,
                   builder_vars, loop_vars>>

RemoteNext ==
    \/ \E ign \in IgnoreSets : RemoteSetIgnoreTokens(ign)
    \/ \E s \in RemoteUnits, token_id \in TokenIds :
          RemoteAddStringCall(s, token_id)
    \/ \E reply \in Replies : RemoteReply(reply)
    \/ RemoteReturn

RemoteSpec == RemoteInit /\ [][RemoteNext]_vars

(***************************************************************************)
(* The state machine of a caller building grammars.                        *)
(***************************************************************************)
BuilderInit ==
    /\ checker = CQLChecker
    /\ pc = "idle"
    /\ call = NoCall
    /\ gram = NoGram
    /\ accepted_all = TRUE
    /\ TraceIdle
    /\ RemoteIdle
    /\ BuilderIdle
    /\ LoopIdle

\* the record of one call get_grammar(grammar, token_attributes, structures)
\* with the module's grammar; no statement of get_grammar raises on a schema
\* of sequences of strings
Build(token_attributes, structures) ==
    LET frame == get_grammar_frame(template, token_attributes, structures)
    IN  [op |-> "get_grammar",
         schema |-> <<token_attributes, structures>>,
         token_attributes |-> frame.token_attributes,
         structures |-> frame.structures,
         raised |-> "none", returned |-> TRUE,
         grammar |-> frame.ret]

\* the caller builds the grammar of a schema
GetGrammarCall(token_attributes, structures) ==
    /\ built.op = "none"
    /\ built' = Build(token_attributes, structures)
    /\ template' = get_grammar_frame(template, token_attributes, structures).grammar
    /\ UNCHANGED <<checker, pc, call, full_vars, trace_vars, remote_vars,
                   previous, loop_vars>>

\* the caller builds again, from the schema the first call left
GetGrammarAgain ==
    /\ built.op = "get_grammar"
    /\ previous.op = "none"
    /\ previous' = built
    /\ built' = Build(built.token_attributes, built.structures)
    /\ template' = get_grammar_frame(template, built.token_attributes,
                                     built.structures).grammar
    /\ UNCHANGED <<checker, pc, call, full_vars, trace_vars, remote_vars, loop_vars>>

\* the caller takes the text
GetGrammarReturn ==
    /\ built.op = "get_grammar"
    /\ built' = NoBuild
    /\ previous' = NoBuild
    /\ UNCHANGED <<checker, pc, call, full_vars, trace_vars, remote_vars,
                   template, loop_vars>>

BuilderNext ==
    \/ \E token_attributes \in TokenAttributeTuples,
          structures \in StructureTuples :
          GetGrammarCall(token_attributes, structures)
    \/ GetGrammarAgain
    \/ GetGrammarReturn

BuilderSpec == BuilderInit /\ [][BuilderNext]_vars

(***************************************************************************)
(* The state machine of call_einfra: the request is posted, the server     *)
(* answers, the answer is handled.                                         *)
(***************************************************************************)
OthersIdle ==
    /\ checker = CQLChecker
    /\ pc = "idle"
    /\ call = NoCall
    /\ gram = NoGram
    /\ accepted_all = TRUE
    /\ TraceIdle
    /\ RemoteIdle
    /\ BuilderIdle

EinfraInit == OthersIdle /\ LoopIdle

\* call_einfra(prompt, api_key) is called: i = 0, the first request
EinfraCall(prompt) ==
    /\ einfra.pc = "idle"
    /\ einfra' = [pc |-> "post", prompt |-> prompt, i |-> 0, resp |-> "none"]
    /\ UNCHANGED <<checker, pc, call, full_vars, trace_vars, remote_vars,
                   builder_vars, auto>>

\* requests.post and raise_for_status end
EinfraAnswer(answer) ==
    /\ einfra.pc = "post"
    /\ einfra' = [einfra EXCEPT !.pc = "handle", !.resp = answer]
    /\ UNCHANGED <<checker, pc, call, full_vars, trace_vars, remote_vars,
                   builder_vars, auto>>

\* the rest of the iteration: break and return; shorten the prompt and post
\* again; count the failed attempt and post again or raise; or let the
\* exception that is no HTTPError leave
EinfraHandle ==
    /\ einfra.pc = "handle"
    /\ einfra' =
          CASE einfra.resp = "ok" ->
                  [einfra EXCEPT !.pc = "returned"]
            [] einfra.resp = "too_long" ->
                  [einfra EXCEPT !.pc = "post",
                                 !.prompt = shorten_prompt(einfra.prompt)]
            [] einfra.resp = "http_error" ->
                  IF einfra.i + 1 >= MaxAttempts
                  THEN [einfra EXCEPT !.pc = "raised", !.i = einfra.i + 1]
                  ELSE [einfra EXCEPT !.pc = "post", !.i = einfra.i + 1]
            [] OTHER ->
                  [einfra EXCEPT !.pc = "raised"]
    /\ UNCHANGED <<checker, pc, call, full_vars, trace_vars, remote_vars,
                   builder_vars, auto>>

\* the caller takes the outcome
EinfraReturn ==
    /\ einfra.pc \in {"returned", "raised"}
    /\ einfra' = NoEinfra
    /\ UNCHANGED <<checker, pc, call, full_vars, trace_vars, remote_vars,
                   builder_vars, auto>>

EinfraNext ==
    \/ \E prompt \in Prompts : EinfraCall(prompt)
    \/ \E answer \in ServerAnswers : EinfraAnswer(answer)
    \/ EinfraHandle
    \/ EinfraReturn

EinfraSpec == EinfraInit /\ [][EinfraNext]_vars

\* the server answers every request and call_einfra goes on running
EinfraLiveSpec == EinfraSpec /\ WF_vars(EinfraNext)

(***************************************************************************)
(* The state machine of auto_call: it blocks in call (the model) and in    *)
(* check_cql (the validator).                                              *)
(***************************************************************************)
AutoInit == OthersIdle /\ LoopIdle

\* auto_call(params) is called, params["corpname"] "__other__" or not
AutoCall(other) ==
    /\ auto.pc = "idle"
    /\ auto' = [NoAuto EXCEPT !.pc = "call", !.other = other,
                              !.stage = "initial"]
    /\ UNCHANGED <<checker, pc, call, full_vars, trace_vars, remote_vars,
                   builder_vars, einfra>>

\* call(params) returns the query it extracted
AutoModelReturns(cql) ==
    /\ auto.pc = "call"
    /\ auto' = auto_call_after_call(auto, cql)
    /\ UNCHANGED <<checker, pc, call, full_vars, trace_vars, remote_vars,
                   builder_vars, einfra>>

\* call(params) raises (call_einfra gave up): the exception leaves auto_call
AutoModelRaises ==
    /\ auto.pc = "call"
    /\ auto' = [auto EXCEPT !.pc = "raised"]
    /\ UNCHANGED <<checker, pc, call, full_vars, trace_vars, remote_vars,
                   builder_vars, einfra>>

\* check_cql(corpname, cql) ends
AutoCheckReturns(outcome) ==
    /\ auto.pc = "check"
    /\ auto' = auto_call_after_check(auto, outcome)
    /\ UNCHANGED <<checker, pc, call, full_vars, trace_vars, remote_vars,
                   builder_vars, einfra>>

\* the caller takes the outcome
AutoReturn ==
    /\ auto.pc \in {"returned", "raised"}
    /\ auto' = NoAuto
    /\ UNCHANGED <<checker, pc, call, full_vars, trace_vars, remote_vars,
                   builder_vars, einfra>>

AutoNext ==
    \/ \E other \in BOOLEAN : AutoCall(other)
    \/ \E cql \in Cqls : AutoModelReturns(cql)
    \/ AutoModelRaises
    \/ \E outcome \in CheckOutcomes : AutoCheckReturns(outcome)
    \/ AutoReturn

AutoSpec == AutoInit /\ [][AutoNext]_vars

\* the model and the validator answer and auto_call goes on running
AutoLiveSpec == AutoSpec /\ WF_vars(AutoNext)

(***************************************************************************)
(* Vocabulary of the properties.                                           *)
(***************************************************************************)
\* the last call was op and has returned
Returned(op) == pc = "returned" /\ call.op = op

\* the unit id is neither the terminator nor ignored
Plain(token_id, st) ==
    token_id # st.eos_token_id /\ token_id \notin st.ignore_tokens

\* the character handed to the last add_char call
Chr == call.s[1]

RECURSIVE state_after(_, _, _)
\* the object after add_char was called on it with s[1], ..., s[k] in turn
state_after(st, s, k) ==
    IF k = 0 THEN st ELSE add_char(state_after(st, s, k - 1), s[k]).st

\* add_char returns True for every character of s, called in turn on st
all_accepted(st, s) ==
    \A k \in 1..Len(s) : add_char(state_after(st, s, k - 1), s[k]).ret

\* p is a prefix of one of the names (by the definition of a prefix)
IsPrefixOfSome(p, names) ==
    \E i \in DOMAIN names : \E k \in 0..Len(names[i]) : SubSeq(names[i], 1, k) = p

(***************************************************************************)
(* C1  Rollback: a failed add_string (unit id neither the terminator nor   *)
(* ignored) leaves every field of the caller's checker equal to its value  *)
(* before the call.                                                        *)
(***************************************************************************)
C1_Rollback ==
    (Returned("add_string") /\ Plain(call.token_id, call.pre) /\ ~call.ret)
        => checker = call.pre

\* a failed call whose first character was accepted and changed the copy
C1_Witness ==
    /\ Returned("add_string") /\ Plain(call.token_id, call.pre) /\ ~call.ret
    /\ Len(call.s) >= 2
    /\ add_char(call.pre, call.s[1]).ret
    /\ add_char(call.pre, call.s[1]).st # call.pre

(***************************************************************************)
(* C2  Commit on success: add_string (unit id neither the terminator nor   *)
(* ignored) returns True exactly when add_char accepts every character in  *)
(* order from the caller's state, the caller's state is then the state of  *)
(* that replay, and add_string(s1 + s2) succeeds iff add_string(s1) and    *)
(* then add_string(s2) both succeed, with equal final states.              *)
(***************************************************************************)
C2_Commit ==
    (Returned("add_string") /\ Plain(call.token_id, call.pre)) =>
        /\ call.ret = all_accepted(call.pre, call.s)
        /\ call.ret => checker = state_after(call.pre, call.s, Len(call.s))
        /\ \A k \in 0..Len(call.s) :
              LET s1 == SubSeq(call.s, 1, k)
                  s2 == SubSeq(call.s, k + 1, Len(call.s))
                  r1 == add_string(call.pre, s1, call.token_id)
                  r2 == add_string(r1.self, s2, call.token_id)
              IN  /\ call.ret = (r1.ret /\ r2.ret)
                  /\ call.ret => r2.self = checker

\* a successful call of two characters that changed the caller's state
C2_Witness ==
    /\ Returned("add_string") /\ Plain(call.token_id, call.pre) /\ call.ret
    /\ Len(call.s) >= 2
    /\ checker # call.pre

(***************************************************************************)
(* C3  Prefix monotonicity, as stated: if add_string(units, id) succeeds   *)
(* (id not the terminator), add_string(P, id') succeeds from the same      *)
(* state for every non-empty proper prefix P and every id' that is not the *)
(* terminator.                                                             *)
(***************************************************************************)
PrefixesSucceed ==
    \A k \in 1..(Len(call.s) - 1) :
        \A id2 \in TokenIds \ {call.pre.eos_token_id} :
            add_string(call.pre, SubSeq(call.s, 1, k), id2).ret

C3_PrefixMonotonicity_Original ==
    (/\ Returned("add_string")
     /\ call.token_id # call.pre.eos_token_id
     /\ call.ret) => PrefixesSucceed

(***************************************************************************)
(* C3  Prefix monotonicity, amended: the same, for a unit id that is       *)
(* neither the terminator nor in the ignore set (a call with an ignored id *)
(* succeeds without reading units).                                        *)
(***************************************************************************)
C3_PrefixMonotonicity ==
    (/\ Returned("add_string")
     /\ Plain(call.token_id, call.pre)
     /\ call.ret) => PrefixesSucceed

\* a successful call with a non-empty proper prefix
C3_Witness ==
    /\ Returned("add_string") /\ Plain(call.token_id, call.pre) /\ call.ret
    /\ Len(call.s) >= 2
    /\ state_after(call.pre, call.s, 1) # call.pre

(***************************************************************************)
(* C4  Terminator check: add_string with the terminator id returns True    *)
(* iff the committed state is marked complete-valid, whatever text comes   *)
(* with it; the text is not replayed and the state is left unchanged.      *)
(***************************************************************************)
C4_Terminator ==
    (Returned("add_string") /\ call.token_id = call.pre.eos_token_id) =>
        /\ call.ret = call.pre.is_valid
        /\ checker = call.pre
        /\ \A s2 \in {<<>>} \cup {<<c>> : c \in StrChars} :
              add_string(call.pre, s2, call.token_id).ret = call.ret

\* a terminator call that succeeds with a text the automaton would reject
C4_Witness ==
    /\ Returned("add_string") /\ call.token_id = call.pre.eos_token_id
    /\ call.ret
    /\ call.s # <<>>
    /\ ~all_accepted(call.pre, call.s)

(***************************************************************************)
(* C5  Ignore set: an add_string call whose unit id is in the ignore set   *)
(* returns True and changes no state, for every ignore set, including one  *)
(* that contains the terminator id.                                        *)
(***************************************************************************)
C5_IgnoredIsNoOp ==
    (Returned("add_string") /\ call.token_id \in call.pre.ignore_tokens) =>
        /\ call.ret
        /\ checker = call.pre

(***************************************************************************)
(* C6  Conservative approximation: every complete query the full grammar   *)
(* accepts is accepted character by character by add_char from the initial *)
(* state and ends in a complete-valid state.                               *)
(***************************************************************************)
C6_Conservative ==
    (call.op = "add_char" /\ parse_ok(gram)) =>
        /\ accepted_all
        /\ checker.is_valid

(***************************************************************************)
(* C7  Bracket transitions outside a quoted literal, as stated: "[" when   *)
(* not in bracket mode is accepted, enters bracket mode and clears         *)
(* complete-valid; "]" in bracket mode with no pending symbol and not      *)
(* awaiting a comparator is accepted, leaves bracket mode and sets         *)
(* complete-valid; "]" outside and "[" inside bracket mode are rejected.   *)
(***************************************************************************)
OpenAccepted ==
    call.ret /\ checker.in_squere_bracket /\ ~checker.is_valid

BracketRest ==
    /\ (/\ Chr = "]"
        /\ call.pre.in_squere_bracket
        /\ call.pre.symbol = <<>>
        /\ ~call.pre.is_attribute_writen)
           => (call.ret /\ ~checker.in_squere_bracket /\ checker.is_valid)
    /\ (Chr = "]" /\ ~call.pre.in_squere_bracket) => ~call.ret
    /\ (Chr = "[" /\ call.pre.in_squere_bracket) => ~call.ret

C7_Brackets_Original ==
    (Returned("add_char") /\ ~call.pre.in_regex) =>
        /\ (Chr = "[" /\ ~call.pre.in_squere_bracket) => OpenAccepted
        /\ BracketRest

(***************************************************************************)
(* C7  Bracket transitions, amended: "[" when not in bracket mode and with *)
(* no pending symbol is accepted, enters bracket mode and clears           *)
(* complete-valid; the other three transitions as stated.                  *)
(***************************************************************************)
C7_Brackets ==
    (Returned("add_char") /\ ~call.pre.in_regex) =>
        /\ (/\ Chr = "["
            /\ ~call.pre.in_squere_bracket
            /\ call.pre.symbol = <<>>) => OpenAccepted
        /\ BracketRest

\* "[" accepted after a complete token: complete-valid goes from true to false
C7_Witness ==
    /\ Returned("add_char") /\ ~call.pre.in_regex
    /\ Chr = "["
    /\ call.pre.is_valid
    /\ call.ret

(***************************************************************************)
(* C8  Attribute gating: in bracket mode, outside a quoted literal and not *)
(* awaiting a comparator, a character other than the quote and "]" is      *)
(* accepted iff the pending symbol extended by it is a prefix of a         *)
(* declared attribute name; a rejected character leaves the symbol as is.  *)
(***************************************************************************)
C8_AttributeGate ==
    (/\ Returned("add_char")
     /\ call.pre.in_squere_bracket
     /\ ~call.pre.in_regex
     /\ ~call.pre.is_attribute_writen
     /\ Chr \notin {"\"", "]"}) =>
        /\ call.ret = IsPrefixOfSome(call.pre.symbol \o <<Chr>>,
                                     call.pre.attributes)
        /\ ~call.ret => checker.symbol = call.pre.symbol

\* a character accepted as the continuation of a pending attribute prefix
C8_Witness ==
    /\ Returned("add_char")
    /\ call.pre.in_squere_bracket
    /\ ~call.pre.in_regex
    /\ ~call.pre.is_attribute_writen
    /\ Len(call.pre.symbol) > 0
    /\ call.ret
    /\ checker.symbol = call.pre.symbol \o <<Chr>>

(***************************************************************************)
(* C9  Awaiting-comparator phase: when the pending symbol becomes a        *)
(* declared attribute name the symbol is cleared and the checker awaits a  *)
(* comparator; there only "=" and the space are accepted, the space leaves *)
(* the state unchanged and "=" ends the phase.                             *)
(***************************************************************************)
C9_AwaitingComparator ==
    /\ ~in_list(checker.symbol, checker.attributes)
    /\ (/\ Returned("add_char")
        /\ call.pre.in_squere_bracket
        /\ ~call.pre.in_regex
        /\ ~call.pre.is_attribute_writen
        /\ in_list(call.pre.symbol \o <<Chr>>, call.pre.attributes)) =>
           (call.ret /\ checker.symbol = <<>> /\ checker.is_attribute_writen)
    /\ (Returned("add_char") /\ call.pre.is_attribute_writen) =>
           /\ call.ret = (Chr \in {"=", " "})
           /\ Chr = " " => checker = call.pre
           /\ Chr = "=" =>
                 checker = [call.pre EXCEPT !.is_attribute_writen = FALSE]
           /\ ~call.ret => checker = call.pre

\* a space absorbed while awaiting the comparator
C9_Witness ==
    /\ Returned("add_char")
    /\ call.pre.is_attribute_writen
    /\ Chr = " "
    /\ call.ret
    /\ checker.is_attribute_writen

(***************************************************************************)
(* C10  Keyword gating: outside bracket mode and outside a quoted literal, *)
(* a character other than the quote and "[" is accepted iff the pending    *)
(* symbol extended by it is a prefix of a keyword; when the symbol becomes *)
(* a keyword it is reset to empty and complete-valid is cleared.           *)
(***************************************************************************)
C10_KeywordGate ==
    (/\ Returned("add_char")
     /\ ~call.pre.in_squere_bracket
     /\ ~call.pre.in_regex
     /\ Chr \notin {"\"", "["}) =>
        /\ call.ret = IsPrefixOfSome(call.pre.symbol \o <<Chr>>,
                                     call.pre.keywords)
        /\ in_list(call.pre.symbol \o <<Chr>>, call.pre.keywords) =>
              (checker.symbol = <<>> /\ ~checker.is_valid)

\* a keyword completed after a complete token: complete-valid is cleared
C10_Witness ==
    /\ Returned("add_char")
    /\ ~call.pre.in_squere_bracket
    /\ ~call.pre.in_regex
    /\ in_list(call.pre.symbol \o <<Chr>>, call.pre.keywords)
    /\ call.pre.is_valid
    /\ ~checker.is_valid

(***************************************************************************)
(* C11  Quoted-literal mode: with an empty pending symbol and not awaiting *)
(* a comparator, a quote toggles quoted-literal mode; inside the mode      *)
(* every character is accepted and changes no state, except that the       *)
(* closing quote ends the mode.                                            *)
(***************************************************************************)
C11_QuotedLiteral ==
    (/\ Returned("add_char")
     /\ call.pre.symbol = <<>>
     /\ ~call.pre.is_attribute_writen) =>
        /\ Chr = "\"" =>
              /\ call.ret
              /\ checker = [call.pre EXCEPT !.in_regex = ~call.pre.in_regex]
        /\ (call.pre.in_regex /\ Chr # "\"") =>
              (call.ret /\ checker = call.pre)

\* "]" accepted and skipped inside a quoted literal of an open token
C11_Witness ==
    /\ Returned("add_char")
    /\ call.pre.in_regex
    /\ call.pre.in_squere_bracket
    /\ Chr = "]"
    /\ call.ret
    /\ checker = call.pre

(***************************************************************************)
(* C12  Worked trace with declared attributes {word, lemma}: [word="dog"]  *)
(* is accepted at every character, the state is not complete-valid after   *)
(* any proper prefix and is complete-valid after the final "]";            *)
(* [colour="dog"] is rejected exactly at the character "c", and the state  *)
(* after the rejection is the state after "[".                             *)
(***************************************************************************)
C12_WorkedTrace ==
    checker.attributes = WordLemma =>
        /\ query = DogQuery =>
              /\ \A k \in DOMAIN rets : rets[k]
              /\ checker.is_valid = (Len(rets) = Len(query))
        /\ query = ColourQuery =>
              /\ Len(rets) >= 1 => rets[1]
              /\ Len(rets) >= 2 =>
                    /\ ~rets[2]
                    /\ checker = [Declared(WordLemma)
                                     EXCEPT !.in_squere_bracket = TRUE]

\* [word="dog"] fed to its end
C12_Witness ==
    /\ checker.attributes = WordLemma
    /\ query = DogQuery
    /\ Len(rets) = Len(query)
    /\ checker.is_valid

(***************************************************************************)
(* Vocabulary of the properties of the remote checker.                     *)
(***************************************************************************)
\* the last remote call was not ignored and the endpoint answered it
Answered ==
    /\ rcall.phase = "returned"
    /\ rcall.token_id \notin rcall.pre.ignore_tokens
    /\ rcall.reply.kind = "json"

\* the endpoint's answer is success
AnswerOk ==
    "result" \in DOMAIN rcall.reply.body /\ rcall.reply.body["result"] = "ok"

\* the endpoint's answer is an error that starts with a continuation pattern
AnswerOpen ==
    /\ "error" \in DOMAIN rcall.reply.body
    /\ \E p \in {PatternEof, PatternWord, PatternRegexp, PatternRbracket} :
          startswith(rcall.reply.body["error"], p)

\* the last remote call handed the terminator
RemoteEos == rcall.token_id = rcall.pre.eos_token_id

(***************************************************************************)
(* C13: when the endpoint's error starts with one of the four continuation *)
(* patterns, a non-terminator call appends the unit and returns True, and  *)
(* a terminator call returns False and leaves accepted-so-far unchanged.   *)
(***************************************************************************)
C13_OpenPrefix ==
    Answered /\ ~AnswerOk /\ AnswerOpen =>
        IF RemoteEos
        THEN ~rcall.ret /\ remote = rcall.pre
        ELSE /\ rcall.ret
             /\ remote = [rcall.pre EXCEPT !.cql = rcall.pre.cql \o rcall.s]

C13_Witness ==
    /\ Answered /\ AnswerOpen /\ RemoteEos
    /\ rcall.pre.cql # <<>>
    /\ rcall.s # <<>>
    /\ ~rcall.ret

(***************************************************************************)
(* C14: when the endpoint answers success the call returns True, for a     *)
(* terminator and for a non-terminator call; after a non-terminator call   *)
(* accepted-so-far is the old text followed by the unit.                   *)
(***************************************************************************)
C14_Success ==
    Answered /\ AnswerOk =>
        /\ rcall.ret
        /\ ~RemoteEos => remote.cql = rcall.pre.cql \o rcall.s

C14_Witness ==
    /\ Answered /\ AnswerOk /\ ~RemoteEos
    /\ rcall.pre.cql # <<>>
    /\ rcall.s # <<>>
    /\ remote.cql = rcall.pre.cql \o rcall.s

(***************************************************************************)
(* C15: when the endpoint answers with any other error, or with neither a  *)
(* success result nor an error, the call returns False and accepted-so-far *)
(* is unchanged.                                                           *)
(***************************************************************************)
C15_DefiniteRejection ==
    Answered /\ ~AnswerOk /\ ~AnswerOpen =>
        ~rcall.ret /\ remote = rcall.pre

C15_Witness ==
    /\ Answered /\ ~AnswerOk /\ ~AnswerOpen
    /\ "error" \in DOMAIN rcall.reply.body
    /\ ~RemoteEos
    /\ rcall.s # <<>>
    /\ ~rcall.ret

(***************************************************************************)
(* C16: accepted-so-far is always empty or a string that was itself sent   *)
(* to the endpoint and classified as valid or as an open prefix.           *)
(***************************************************************************)
C16_AcceptedWasChecked ==
    remote.cql = <<>> \/ remote.cql \in confirmed

(***************************************************************************)
(* C17: a call whose unit id is not ignored sends exactly one request; it  *)
(* carries accepted-so-far alone for the terminator and accepted-so-far    *)
(* followed by the unit otherwise, and it is sent before accepted-so-far   *)
(* changes.                                                                *)
(***************************************************************************)
C17_RequestProtocol ==
    rcall.phase # "idle" /\ rcall.token_id \notin rcall.pre.ignore_tokens =>
        /\ Len(rcall.sent) = 1
        /\ rcall.sent[1].corpname = rcall.pre.corpname
        /\ unquote_plus(rcall.sent[1].cql) =
              IF RemoteEos THEN rcall.pre.cql ELSE rcall.pre.cql \o rcall.s
        /\ rcall.phase = "waiting" => remote = rcall.pre

C17_Witness ==
    /\ rcall.phase = "waiting"
    /\ RemoteEos
    /\ rcall.token_id \notin rcall.pre.ignore_tokens
    /\ rcall.pre.cql # <<>>
    /\ rcall.s # <<>>
    /\ unquote_plus(rcall.sent[1].cql) = rcall.pre.cql

(***************************************************************************)
(* C18: a transport failure leaves add_string as an exception, an outcome  *)
(* distinct from the boolean results; the one request is not repeated and  *)
(* accepted-so-far is unchanged.                                           *)
(***************************************************************************)
C18_TransportFailure ==
    rcall.phase = "returned" =>
        /\ rcall.raised <=> rcall.reply.kind = "exception"
        /\ rcall.reply.kind = "exception" =>
              /\ Len(rcall.sent) = 1
              /\ remote = rcall.pre

C18_Witness ==
    /\ rcall.phase = "returned"
    /\ rcall.reply.kind = "exception"
    /\ rcall.raised
    /\ rcall.pre.cql # <<>>
    /\ rcall.s # <<>>

(***************************************************************************)
(* C19: for any two distinct raw structure names of a schema, the          *)
(* identifiers get_grammar derives for them are different, so no two       *)
(* structures share their rule names.                                      *)
(***************************************************************************)
C19_InjectiveNames ==
    built.op = "get_grammar" =>
        \A i, j \in DOMAIN built.structures :
            built.structures[i][1] # built.structures[j][1] =>
                built.grammar.STRUCTURE_ENTRIES[i].STRUCT_NAME #
                    built.grammar.STRUCTURE_ENTRIES[j].STRUCT_NAME

\* the schema names a structure twice
DuplicateNames(structures) ==
    \E i, j \in DOMAIN structures :
        i # j /\ structures[i][1] = structures[j][1]

(***************************************************************************)
(* C20: building from a schema with duplicate structure names or with an   *)
(* empty token-attribute set fails with SchemaError and produces no        *)
(* grammar text.                                                           *)
(***************************************************************************)
C20_SchemaValidation ==
    /\ built.op = "get_grammar"
    /\ DuplicateNames(built.structures) \/ built.token_attributes = <<>>
    => built.raised = "SchemaError" /\ ~built.returned

(***************************************************************************)
(* Vocabulary of the properties of the built grammars.                     *)
(***************************************************************************)
\* the attribute names tried in tags: two declared ones and an undeclared
TagAttributes ==
    { <<"a", "u", "d", "i", "o">>, <<"w", "h", "o">>, <<"f", "o", "o">> }

\* the tag  <name a="1"/>
Tag(name, a) ==
    <<"<">> \o name \o <<" ">> \o a \o <<"=", "\"", "1", "\"", "/", ">">>

\* attribute a is declared for the structure
DeclaredFor(structure, a) ==
    \E k \in DOMAIN structure[2] : structure[2][k] = a

\* the schema  {s: {audio}}
AudioSchema == << << <<"s">>, << <<"a", "u", "d", "i", "o">> >> >> >>

MeetWithOffsets ==
    <<"(", "m", "e", "e", "t", " ", "[", "t", "a", "g", "=", "\"", "N",
      ".", "*", "\"", "]", " ", "[", "t", "a", "g", "=", "\"", "V", "B",
      ".", "*", "\"", "]", " ", "-", "3", " ", "3", ")">>

\* (meet [tag="N.*"] [tag="VB.*"])
MeetWithoutOffsets ==
    <<"(", "m", "e", "e", "t", " ", "[", "t", "a", "g", "=", "\"", "N",
      ".", "*", "\"", "]", " ", "[", "t", "a", "g", "=", "\"", "V", "B",
      ".", "*", "\"", "]", ")">>

(***************************************************************************)
(* C23: in the grammar built for a schema that declares tag, in both       *)
(* dialects, (meet [tag="N.*"] [tag="VB.*"] -3 3) is accepted and          *)
(* (meet [tag="N.*"] [tag="VB.*"]), without the offsets, is rejected.      *)
(***************************************************************************)
C23_MeetOffsets ==
    /\ built.op = "get_grammar"
    /\ \E k \in DOMAIN built.token_attributes :
          built.token_attributes[k] = <<"t", "a", "g">>
    => /\ lark_function_meet(built.token_attributes, MeetWithOffsets)
       /\ gbnf_meet(built.grammar, MeetWithOffsets)
       /\ ~lark_function_meet(built.token_attributes, MeetWithoutOffsets)
       /\ ~gbnf_meet(built.grammar, MeetWithoutOffsets)

(***************************************************************************)
(* C24: call_einfra always terminates: every call returns a response or    *)
(* raises, after at most 10 failed attempts, whatever the server answers.  *)
(***************************************************************************)
C24_Terminates ==
    /\ [](einfra.i <= MaxAttempts)
    /\ (einfra.pc = "post") ~> (einfra.pc \in {"returned", "raised"})

(***************************************************************************)
(* Vocabulary of the properties of auto_call.                              *)
(***************************************************************************)
\* the positions of the record with event ev
At(ev) == {n \in DOMAIN auto.log : auto.log[n].ev = ev}

\* the model calls made so far, the checks made so far
ModelCalls == Cardinality(At("call"))

Checks == Cardinality(At("check_ok") \cup At("check_raised"))

(***************************************************************************)
(* C25: for a corpus other than "__other__", the query auto_call returns   *)
(* is one on which check_cql was run and raised no error.                  *)
(***************************************************************************)
C25_ReturnsValidated ==
    auto.pc = "returned" /\ ~auto.other => auto.cql \in auto.passed

\* the bounds of the loop: at most 5 model calls, of them at most one after
\* the re-prompt for a missing query and at most 3 after a failed check, and
\* at most 3 checks
LoopBounds ==
    /\ ModelCalls <= 5
    /\ Checks <= 3
    /\ Cardinality(At("append_nocql")) <= 1
    /\ Cardinality(At("append_error")) <= 3

\* the check at position n is followed by the user message with its error
\* and then by exactly one model call before the next check or the end
FollowedByRepair(n) ==
    /\ n + 1 <= Len(auto.log) =>
          auto.log[n + 1] = Event("append_error", auto.log[n].text)
    /\ n + 2 <= Len(auto.log) => auto.log[n + 2].ev = "call"
    /\ n + 3 <= Len(auto.log) => auto.log[n + 3].ev # "call"
    /\ auto.pc = "returned" => n + 2 <= Len(auto.log)

\* the first passing check ends the loop with no further model call
PassEndsLoop ==
    \A n \in At("check_ok") : n = Len(auto.log) /\ auto.pc = "returned"

C27_ValidOutsideBracket ==
    /\ checker.is_valid => ~checker.in_squere_bracket
    /\ Returned("add_string") /\ call.token_id = call.pre.eos_token_id
          /\ call.ret
       => ~call.pre.in_squere_bracket

C27_Witness ==
    /\ Returned("add_char")
    /\ Chr = "]"
    /\ call.pre.in_squere_bracket
    /\ ~call.pre.is_valid
    /\ checker.is_valid
    /\ ~checker.in_squere_bracket

(***************************************************************************)
(* C28: whenever the state is marked complete-valid the checker is not     *)
(* inside an unclosed quoted literal and its pending symbol holds no       *)
(* partially typed keyword.                                                *)
(***************************************************************************)
C28_ValidOutsideLiteral ==
    checker.is_valid => ~checker.in_regex /\ Len(checker.symbol) = 0

(***************************************************************************)
(* C29: for every declared attribute set and every attribute a of it, the  *)
(* query [a="v"] fed from the initial state is accepted at every character *)
(* and ends complete-valid.                                                *)
(***************************************************************************)
C29_Typeable ==
    \A k \in DOMAIN checker.attributes :
        query = TypedQuery(checker.attributes[k]) =>
            /\ \A n \in DOMAIN rets : rets[n]
            /\ Len(rets) = Len(query) => checker.is_valid

(***************************************************************************)
(* C30: after every sequence of add_char and add_string calls, (1) inside  *)
(* a quoted literal the pending symbol is empty and no comparator is       *)
(* awaited; (2) awaiting a comparator implies bracket mode and an empty    *)
(* pending symbol; (3) a non-empty pending symbol is a proper prefix, not  *)
(* a complete name, of a declared attribute in bracket mode and of a       *)
(* keyword outside it.                                                     *)
(***************************************************************************)
C30_Structure ==
    /\ checker.in_regex =>
          Len(checker.symbol) = 0 /\ ~checker.is_attribute_writen
    /\ checker.is_attribute_writen =>
          checker.in_squere_bracket /\ Len(checker.symbol) = 0
    /\ Len(checker.symbol) > 0 =>
          LET names == IF checker.in_squere_bracket
                       THEN checker.attributes ELSE checker.keywords
          IN  /\ \E k \in DOMAIN names :
                    /\ startswith(names[k], checker.symbol)
                    /\ Len(checker.symbol) < Len(names[k])
              /\ \A k \in DOMAIN names : names[k] # checker.symbol

C30_Witness ==
    /\ Returned("add_string") /\ call.ret
    /\ Len(call.pre.symbol) > 0
    /\ call.pre.in_squere_bracket
    /\ checker.is_attribute_writen
    /\ Len(checker.symbol) = 0

====
